---- MODULE Spec2Model ----
(***************************************************************************)
(* A model of the multi_asset_staking program (src/lib.rs): the accounts   *)
(* the instructions read and write, one action per instruction, and the    *)
(* arithmetic of each handler at the width the program uses.               *)
(*                                                                         *)
(* An instruction runs its handler on the deserialized accounts; the       *)
(* accounts are written back only when the handler returns Ok.  A handler  *)
(* that panics (an arithmetic overflow in a build with overflow checks)    *)
(* fails the instruction as an error does.                                 *)
(***************************************************************************)
EXTENDS Integers, Sequences, FiniteSets, TLC

\* ------------------------------------------------------------------ bounds
\* The model's machine word: u64 arithmetic is modelled modulo 2^U64Bits.
U64Bits == 18
\* The longest vector (initial_assets, amounts, new_allocation) an input has.
MaxSlots == 2
\* The number of instructions a behaviour executes after initialize_portfolio.
MaxCalls == 2

\* -------------------------------------------------------- program constants
REWARD_INTERVAL == 86400
\* max_age = MAX_AGE_SECONDS * NANOS_PER_SECOND (lib.rs line 199).
MAX_AGE_SECONDS == 60
NANOS_PER_SECOND == 1000000000

U64Mod == 2 ^ U64Bits
U64_MAX == U64Mod - 1

\* ------------------------------------------------------------------ inputs
Amounts == {1, U64_MAX}
\* Vectors of up to MaxSlots amounts with no, one or only large entries.
Large(v) == Cardinality({i \in DOMAIN v : v[i] = U64_MAX})
Vectors ==
    UNION {{v \in [1..n -> Amounts] : Large(v) <= 1 \/ Large(v) = n} :
              n \in 0..MaxSlots}
Scalars == {1, U64_MAX}
RewardRates == {2, U64_MAX}
Signers == {"owner_key", "other_key"}
ClockReadings ==
    {0, 1000 + REWARD_INTERVAL - 1, 1000 + REWARD_INTERVAL,
     1000 + 2 * REWARD_INTERVAL - 1, 1000 + 2 * REWARD_INTERVAL}
OracleClockReadings == {1000 + REWARD_INTERVAL}
\* The price feed account: unreadable, or a quote (price is an i64).
QuoteAges == {60, 61}
Prices == {-1, 2}
Descriptions == {"proposal"}
\* Initial assets of a portfolio created with every slot at zero.
ZeroVectors == {[i \in 1..n |-> 0] : n \in 0..MaxSlots}
NoQuote == [readable |-> FALSE, publish_time |-> 0, price |-> 0]
Quotes(now) ==
    {NoQuote} \cup
    {[readable |-> TRUE, publish_time |-> now - age, price |-> p] :
        age \in QuoteAges, p \in Prices}

VARIABLES
    accounts,         \* the accounts as stored on the ledger
    overflow_checks,  \* the build: TRUE panics on overflow, FALSE wraps
    last,             \* the last instruction: its inputs and its outcome
    calls,            \* the number of instructions executed
    budget,           \* the number of instructions a behaviour may execute
    audit             \* totals over the behaviour: amounts moved by accepted
                      \* stake and withdraw transfers, whether an
                      \* emergency_unstake has emptied a non-empty portfolio,
                      \* and the signers of the successful cast_vote calls

vars == <<accounts, overflow_checks, last, calls, budget, audit>>

\* ------------------------------------------------------------- arithmetic
\* a + b on u64: the wrapped value, and whether the checked build panics.
add(a, b, checks) ==
    [panic |-> checks /\ a + b > U64_MAX, val |-> (a + b) % U64Mod]

RECURSIVE wrapping_mul(_, _)
wrapping_mul(a, b) ==
    IF b = 0 THEN 0
    ELSE LET h == wrapping_mul(a, b \div 2)
         IN  (2 * h + (IF b % 2 = 1 THEN a ELSE 0)) % U64Mod

\* a * b on u64.
mul(a, b, checks) ==
    [panic |-> checks /\ a # 0 /\ b > U64_MAX \div a, val |-> wrapping_mul(a, b)]

saturating_sub(a, b) == IF a >= b THEN a - b ELSE 0

\* `x as u64` of an i64.
as_u64(x) == x % U64Mod

\* amounts.iter().sum(): a left fold of + from 0.
RECURSIVE iter_sum(_, _, _, _)
iter_sum(amounts, i, acc, checks) ==
    IF i > Len(amounts) THEN [panic |-> FALSE, val |-> acc]
    ELSE LET s == add(acc, amounts[i], checks)
         IN  IF s.panic THEN [panic |-> TRUE, val |-> acc]
             ELSE iter_sum(amounts, i + 1, s.val, checks)

\* ------------------------------------------------------- external services
\* A transfer whose result is dropped (let _ = token::transfer(..)).
token_transfer_ignored(token_ok) == "Ok"

\* token::transfer(ctx, amount)?  The token program accepts or refuses the
\* transfer; the ? hands a refusal back as the instruction's error.
token_transfer(token_ok) == IF token_ok THEN "Ok" ELSE "TokenError"

\* What a handler hands back: its result, the accounts as it left them in
\* memory, and the amounts it asked the token program to transfer.
Outcome(res, acc, cpi) == [res |-> res, acc |-> acc, cpi |-> cpi]

\* ---------------------------------------------------------------- handlers
\* The loop of stake_assets from index i on.
RECURSIVE stake_loop(_, _, _, _)
stake_loop(assets, amounts, i, checks) ==
    IF i > Len(amounts) THEN [panic |-> FALSE, assets |-> assets]
    ELSE LET s == add(assets[i], amounts[i], checks)
         IN  IF s.panic THEN [panic |-> TRUE, assets |-> assets]
             ELSE stake_loop([assets EXCEPT ![i] = s.val], amounts, i + 1, checks)

stake_assets(acc, amounts, token_ok, checks) ==
    IF Len(amounts) # Len(acc.portfolio.assets)
    THEN Outcome("InvalidAmount", acc, <<>>)
    ELSE LET l == stake_loop(acc.portfolio.assets, amounts, 1, checks)
             mem == [acc EXCEPT !.portfolio.assets = l.assets]
             total == iter_sum(amounts, 1, 0, checks)
         IN  IF l.panic \/ total.panic THEN Outcome("Panic", mem, <<>>)
             ELSE Outcome(token_transfer(token_ok), mem, <<total.val>>)

\* The loop of withdraw_assets from index i on.
RECURSIVE withdraw_loop(_, _, _)
withdraw_loop(assets, amounts, i) ==
    IF i > Len(amounts) THEN [res |-> "Ok", assets |-> assets]
    ELSE IF ~(assets[i] >= amounts[i])
         THEN [res |-> "InsufficientFunds", assets |-> assets]
         ELSE withdraw_loop([assets EXCEPT ![i] = assets[i] - amounts[i]],
                            amounts, i + 1)

withdraw_assets(acc, amounts, token_ok, checks) ==
    IF Len(amounts) # Len(acc.portfolio.assets)
    THEN Outcome("InvalidAmount", acc, <<>>)
    ELSE LET l == withdraw_loop(acc.portfolio.assets, amounts, 1)
             mem == [acc EXCEPT !.portfolio.assets = l.assets]
             total == iter_sum(amounts, 1, 0, checks)
         IN  IF l.res # "Ok" THEN Outcome(l.res, mem, <<>>)
             ELSE IF total.panic THEN Outcome("Panic", mem, <<>>)
             ELSE Outcome(token_transfer(token_ok), mem, <<total.val>>)

\* rebalance without its require!.
rebalance_unchecked(acc, new_allocation) ==
    Outcome("Ok", [acc EXCEPT !.portfolio.assets = new_allocation], <<>>)

rebalance(acc, new_allocation) ==
    IF Len(new_allocation) # Len(acc.portfolio.assets)
    THEN Outcome("InvalidRebalance", acc, <<>>)
    ELSE Outcome("Ok", [acc EXCEPT !.portfolio.assets = new_allocation], <<>>)

\* rebalance_with_risk_management without its loop of require!s.
rebalance_with_risk_management_unbounded(acc, new_allocation, max_allocation) ==
    Outcome("Ok", [acc EXCEPT !.portfolio.assets = new_allocation], <<>>)

rebalance_with_risk_management(acc, new_allocation, max_allocation) ==
    IF \E i \in 1..Len(new_allocation) : ~(new_allocation[i] <= max_allocation)
    THEN Outcome("ExceedsMaxAllocation", acc, <<>>)
    ELSE Outcome("Ok", [acc EXCEPT !.portfolio.assets = new_allocation], <<>>)

\* update_performance that keeps only the newest value
\* (value_history = vec![current_value]).
update_performance_overwriting(acc, current_value, checks) ==
    LET h == acc.portfolio.value_history
        previous_value == IF Len(h) > 0 THEN h[Len(h)] ELSE 0
        returns == saturating_sub(current_value, previous_value)
        r == add(acc.portfolio.returns, returns, checks)
        mem == [acc EXCEPT !.portfolio.returns = r.val]
    IN  IF r.panic THEN Outcome("Panic", acc, <<>>)
        ELSE Outcome("Ok",
                     [mem EXCEPT !.portfolio.value_history = <<current_value>>],
                     <<>>)

update_performance(acc, current_value, checks) ==
    LET h == acc.portfolio.value_history
        previous_value == IF Len(h) > 0 THEN h[Len(h)] ELSE 0
        returns == saturating_sub(current_value, previous_value)
        r == add(acc.portfolio.returns, returns, checks)
        mem == [acc EXCEPT !.portfolio.returns = r.val]
    IN  IF r.panic THEN Outcome("Panic", acc, <<>>)
        ELSE Outcome("Ok",
                     [mem EXCEPT !.portfolio.value_history = Append(h, current_value)],
                     <<>>)

distribute_rewards(acc, reward_amount, token_ok) ==
    Outcome(token_transfer(token_ok), acc, <<reward_amount>>)

\* auto_distribute_rewards without its require!.
auto_distribute_rewards_ungated(acc, reward_rate, current_time, token_ok, checks) ==
    LET last_reward_time == acc.reward_pool.last_reward_time
        elapsed == current_time - last_reward_time
        reward_amount == mul(reward_rate, as_u64(elapsed), checks)
        t == token_transfer(token_ok)
    IN  IF reward_amount.panic THEN Outcome("Panic", acc, <<>>)
        ELSE IF t # "Ok" THEN Outcome(t, acc, <<reward_amount.val>>)
        ELSE Outcome("Ok",
                     [acc EXCEPT !.reward_pool.last_reward_time = current_time],
                     <<reward_amount.val>>)

auto_distribute_rewards(acc, reward_rate, current_time, token_ok, checks) ==
    LET last_reward_time == acc.reward_pool.last_reward_time
        elapsed == current_time - last_reward_time
        reward_amount == mul(reward_rate, as_u64(elapsed), checks)
        t == token_transfer(token_ok)
    IN  IF ~(elapsed >= REWARD_INTERVAL)
        THEN Outcome("RewardsNotYetAvailable", acc, <<>>)
        ELSE IF reward_amount.panic THEN Outcome("Panic", acc, <<>>)
        ELSE IF t # "Ok" THEN Outcome(t, acc, <<reward_amount.val>>)
        ELSE Outcome("Ok",
                     [acc EXCEPT !.reward_pool.last_reward_time = current_time],
                     <<reward_amount.val>>)

\* emergency_unstake without assets.clear().
emergency_unstake_uncleared(acc, penalty) ==
    LET penalized == [i \in 1..Len(acc.portfolio.assets) |->
                         saturating_sub(acc.portfolio.assets[i], penalty)]
    IN  Outcome("Ok", [acc EXCEPT !.portfolio.assets = penalized], <<>>)

emergency_unstake(acc, penalty) ==
    LET penalized == [i \in 1..Len(acc.portfolio.assets) |->
                         saturating_sub(acc.portfolio.assets[i], penalty)]
        cleared == SubSeq(penalized, 1, 0)
    IN  Outcome("Ok", [acc EXCEPT !.portfolio.assets = cleared], <<>>)

stake_governance_tokens(acc, amount, token_ok, checks) ==
    LET s == add(acc.governance_stake.staked_amount, amount, checks)
        mem == [acc EXCEPT !.governance_stake.staked_amount = s.val]
    IN  IF s.panic THEN Outcome("Panic", acc, <<>>)
        ELSE Outcome(token_transfer(token_ok), mem, <<amount>>)

reward_referral(acc, referred_user, referral_reward, token_ok, checks) ==
    LET s == add(acc.referral.reward, referral_reward, checks)
        named == [acc EXCEPT !.referral.referred_user = referred_user]
        mem == [named EXCEPT !.referral.reward = s.val]
    IN  IF s.panic THEN Outcome("Panic", named, <<>>)
        ELSE Outcome(token_transfer(token_ok), mem, <<referral_reward>>)

create_proposal(description) ==
    [proposal |-> description, votes_for |-> 0, votes_against |-> 0]

\* cast_vote with its branches exchanged.
cast_vote_inverted(acc, vote, checks) ==
    LET f == add(acc.governance.votes_for, 1, checks)
        a == add(acc.governance.votes_against, 1, checks)
    IN  IF ~vote
        THEN IF f.panic THEN Outcome("Panic", acc, <<>>)
             ELSE Outcome("Ok", [acc EXCEPT !.governance.votes_for = f.val], <<>>)
        ELSE IF a.panic THEN Outcome("Panic", acc, <<>>)
             ELSE Outcome("Ok", [acc EXCEPT !.governance.votes_against = a.val], <<>>)

cast_vote(acc, vote, checks) ==
    LET f == add(acc.governance.votes_for, 1, checks)
        a == add(acc.governance.votes_against, 1, checks)
    IN  IF vote
        THEN IF f.panic THEN Outcome("Panic", acc, <<>>)
             ELSE Outcome("Ok", [acc EXCEPT !.governance.votes_for = f.val], <<>>)
        ELSE IF a.panic THEN Outcome("Panic", acc, <<>>)
             ELSE Outcome("Ok", [acc EXCEPT !.governance.votes_against = a.val], <<>>)

\* PriceFeed::get_price_no_older_than(current_time, age) of the price feed
\* library: the quote, unless |publish_time - current_time| > age, with age
\* in seconds.  The handler passes age = max_age = 60 * 1_000_000_000; the
\* comparison with that product is made on quotient and remainder.
exceeds_max_age(time_diff_abs) ==
    \/ time_diff_abs \div NANOS_PER_SECOND > MAX_AGE_SECONDS
    \/ /\ time_diff_abs \div NANOS_PER_SECOND = MAX_AGE_SECONDS
       /\ time_diff_abs % NANOS_PER_SECOND > 0

get_price_no_older_than(quote, current_time) ==
    LET d == quote.publish_time - current_time
        time_diff_abs == IF d < 0 THEN -d ELSE d
    IN  ~exceeds_max_age(time_diff_abs)

\* The valuation loop of update_portfolio_value_with_oracle from index i on.
RECURSIVE value_loop(_, _, _, _, _)
value_loop(assets, price, i, total_value, checks) ==
    IF i > Len(assets) THEN [panic |-> FALSE, val |-> total_value]
    ELSE LET asset_value == mul(assets[i], as_u64(price), checks)
             t == add(total_value, asset_value.val, checks)
         IN  IF asset_value.panic \/ t.panic
             THEN [panic |-> TRUE, val |-> total_value]
             ELSE value_loop(assets, price, i + 1, t.val, checks)

update_portfolio_value_with_oracle(acc, quote, current_timestamp, checks) ==
    IF ~quote.readable THEN Outcome("OracleLoadError", acc, <<>>)
    ELSE IF ~get_price_no_older_than(quote, current_timestamp)
    THEN Outcome("OracleLoadError", acc, <<>>)
    ELSE LET total == value_loop(acc.portfolio.assets, quote.price, 1, 0, checks)
             h == acc.portfolio.value_history
         IN  IF total.panic THEN Outcome("Panic", acc, <<>>)
             ELSE Outcome("Ok",
                          [acc EXCEPT !.portfolio.value_history = Append(h, total.val)],
                          <<>>)

\* ------------------------------------------------------------ the runtime
\* #[account(has_one = owner)]: the portfolio's owner field is the signer.
has_one_owner(acc, signer) == acc.portfolio.owner = signer

\* The instruction's entry point: the accounts in memory are written back
\* when the handler returned Ok, and dropped otherwise.
exit(stored, out) == IF out.res = "Ok" THEN out.acc ELSE stored

\* One instruction: the handler's outcome `out` on the stored accounts.
Execute(op, signer, vec, num, now, quote, token_ok, out) ==
    /\ accounts' = exit(accounts, out)
    /\ last' = [op |-> op, signer |-> signer, vec |-> vec, num |-> num,
                now |-> now, quote |-> quote,
                refused |-> (out.cpi # <<>> /\ ~token_ok),
                res |-> out.res, cpi |-> out.cpi, mem |-> out.acc,
                pre |-> accounts]
    /\ calls' = calls + 1
    /\ audit' =
          [staked |-> audit.staked +
              (IF op = "stake_assets" /\ out.res = "Ok" /\ token_ok
               THEN out.cpi[1] ELSE 0),
           withdrawn |-> audit.withdrawn +
              (IF op = "withdraw_assets" /\ out.res = "Ok" /\ token_ok
               THEN out.cpi[1] ELSE 0),
           unstaked |-> \/ audit.unstaked
                        \/ /\ op = "emergency_unstake" /\ out.res = "Ok"
                           /\ accounts.portfolio.assets # <<>>,
           voters |-> IF op = "cast_vote" /\ out.res = "Ok"
                      THEN Append(audit.voters, signer) ELSE audit.voters]
    /\ UNCHANGED <<overflow_checks, budget>>

\* An instruction of a context with has_one = owner, called by `signer`.
Owned(acc, signer, out) ==
    IF has_one_owner(acc, signer) THEN out
    ELSE Outcome("ConstraintHasOne", acc, <<>>)

\* initialize_portfolio(initial_assets) by `user`, on the zeroed account.
initialize_portfolio(user, initial_assets) ==
    [owner |-> user, assets |-> initial_assets, value_history |-> <<0>>,
     returns |-> 0]

\* The accounts once the portfolio is initialized and the proposal created.
\* No instruction creates the reward pool, the governance stake or the
\* referral: they start zeroed, the reward pool with a last_reward_time of
\* 1000.
AccountsAtStart(initial_assets) ==
    [portfolio |-> initialize_portfolio("owner_key", initial_assets),
     reward_pool |-> [total_rewards |-> 0, last_reward_time |-> 1000],
     governance_stake |-> [staked_amount |-> 0, last_vote_timestamp |-> 0],
     referral |-> [referred_user |-> "none", reward |-> 0],
     governance |-> create_proposal(CHOOSE d \in Descriptions : TRUE)]

\* The state after construction, for portfolios created with one of
\* `initials`, in a behaviour of up to `n` instructions.
Start(initials, n) ==
    /\ \E initial_assets \in initials :
          /\ accounts = AccountsAtStart(initial_assets)
          /\ last = [op |-> "initialize_portfolio", signer |-> "owner_key",
                     vec |-> initial_assets, num |-> 0, now |-> 0,
                     quote |-> NoQuote, refused |-> FALSE, res |-> "Ok",
                     cpi |-> <<>>,
                     mem |-> AccountsAtStart(initial_assets),
                     pre |-> AccountsAtStart(initial_assets)]
    /\ overflow_checks \in BOOLEAN
    /\ calls = 0
    /\ budget = n
    /\ audit = [staked |-> 0, withdrawn |-> 0, unstaked |-> FALSE,
                voters |-> <<>>]

Init == Start(Vectors, MaxCalls)

\* Portfolios created with every slot at zero.
InitFromZero == Start(ZeroVectors, MaxCalls)

\* One instruction more, for the behaviours of the valuation instructions.
InitValuation == Start(Vectors, MaxCalls + 1)

\* ----------------------------------------------------------- instructions
StakeAssets ==
    /\ calls < budget
    /\ \E amounts \in Vectors, token_ok \in BOOLEAN :
           Execute("stake_assets", "other_key", amounts, 0, 0, NoQuote, token_ok,
                   stake_assets(accounts, amounts, token_ok, overflow_checks))

WithdrawAssets ==
    /\ calls < budget
    /\ \E amounts \in Vectors, token_ok \in BOOLEAN :
           Execute("withdraw_assets", "other_key", amounts, 0, 0, NoQuote, token_ok,
                   withdraw_assets(accounts, amounts, token_ok, overflow_checks))

\* The allocations a signer submits.  The has_one constraint refuses a
\* signer other than the owner before the handler reads its arguments: that
\* signer submits the vectors without a large entry only.
Allocations(signer) ==
    IF has_one_owner(accounts, signer) THEN Vectors
    ELSE {v \in Vectors : Large(v) = 0}

Rebalance ==
    /\ calls < budget
    /\ \E owner \in Signers : \E new_allocation \in Allocations(owner) :
           Execute("rebalance", owner, new_allocation, 0, 0, NoQuote, TRUE,
                   Owned(accounts, owner, rebalance(accounts, new_allocation)))

RebalanceWithRiskManagement ==
    /\ calls < budget
    /\ \E owner \in Signers : \E new_allocation \in Allocations(owner),
                                max_allocation \in Scalars :
           Execute("rebalance_with_risk_management", owner, new_allocation,
                   max_allocation, 0, NoQuote, TRUE,
                   Owned(accounts, owner,
                         rebalance_with_risk_management(accounts, new_allocation,
                                                        max_allocation)))

UpdatePerformance ==
    /\ calls < budget
    /\ \E owner \in Signers, current_value \in Scalars :
           Execute("update_performance", owner, <<>>, current_value, 0, NoQuote, TRUE,
                   Owned(accounts, owner,
                         update_performance(accounts, current_value, overflow_checks)))

DistributeRewards ==
    /\ calls < budget
    /\ \E reward_amount \in Scalars, token_ok \in BOOLEAN :
           Execute("distribute_rewards", "other_key", <<>>, reward_amount, 0, NoQuote,
                   token_ok, distribute_rewards(accounts, reward_amount, token_ok))

AutoDistributeRewards ==
    /\ calls < budget
    /\ \E reward_rate \in RewardRates, now \in ClockReadings, token_ok \in BOOLEAN :
           Execute("auto_distribute_rewards", "other_key", <<>>, reward_rate, now,
                   NoQuote, token_ok,
                   auto_distribute_rewards(accounts, reward_rate, now, token_ok,
                                           overflow_checks))

EmergencyUnstake ==
    /\ calls < budget
    /\ \E owner \in Signers, penalty \in Scalars :
           Execute("emergency_unstake", owner, <<>>, penalty, 0, NoQuote, TRUE,
                   Owned(accounts, owner, emergency_unstake(accounts, penalty)))

StakeGovernanceTokens ==
    /\ calls < budget
    /\ \E amount \in Scalars, token_ok \in BOOLEAN :
           Execute("stake_governance_tokens", "other_key", <<>>, amount, 0, NoQuote,
                   token_ok,
                   stake_governance_tokens(accounts, amount, token_ok, overflow_checks))

UpdateWithOracle ==
    /\ calls < budget
    /\ \E now \in OracleClockReadings : \E quote \in Quotes(now) :
           Execute("update_portfolio_value_with_oracle", "other_key", <<>>, 0, now,
                   quote, TRUE,
                   update_portfolio_value_with_oracle(accounts, quote, now,
                                                      overflow_checks))

RewardReferral ==
    /\ calls < budget
    /\ \E referred_user \in Signers, referral_reward \in Scalars, token_ok \in BOOLEAN :
           Execute("reward_referral", referred_user, <<>>, referral_reward, 0, NoQuote,
                   token_ok,
                   reward_referral(accounts, referred_user, referral_reward, token_ok,
                                   overflow_checks))

CastVote ==
    /\ calls < budget
    /\ \E voter \in Signers, vote \in BOOLEAN :
           Execute("cast_vote", voter, <<>>, IF vote THEN 1 ELSE 0, 0, NoQuote, TRUE,
                   cast_vote(accounts, vote, overflow_checks))

Next ==
    \/ StakeAssets
    \/ WithdrawAssets
    \/ Rebalance
    \/ RebalanceWithRiskManagement
    \/ UpdatePerformance
    \/ DistributeRewards
    \/ AutoDistributeRewards
    \/ EmergencyUnstake
    \/ StakeGovernanceTokens
    \/ UpdateWithOracle
    \/ RewardReferral
    \/ CastVote

Spec == Init /\ [][Next]_vars

\* Every instruction, on portfolios created with every slot at zero.
SpecFromZero == InitFromZero /\ [][Next]_vars

\* The instructions that write value_history and returns.
NextValuation ==
    \/ UpdatePerformance
    \/ UpdateWithOracle

SpecValuation == InitValuation /\ [][NextValuation]_vars

\* ------------------------------------------------------------------ claims
Pre == last.pre.portfolio
Now == accounts.portfolio
ByOwner == last.signer = Pre.owner
HistoryAndReturnsKept ==
    Now.value_history = Pre.value_history /\ Now.returns = Pre.returns
Elapsed == last.now - last.pre.reward_pool.last_reward_time
\* rate * elapsed does not fit the word.
ProductOverflows == last.num # 0 /\ Elapsed > U64_MAX \div last.num

\* C1: an instruction that returns an error, panics, or has its token
\* transfer refused leaves every account exactly as it was before the call:
\* a withdraw that fails InsufficientFunds at a later slot leaves the earlier
\* slots at their old values, a stake whose transfer fails adds nothing.
C1_AllOrNothing ==
    (last.res # "Ok" \/ last.refused) => accounts = last.pre

\* C1 witness: a withdraw failed InsufficientFunds after the handler had
\* already decremented an earlier slot in memory.
C1_Witness ==
    /\ last.op = "withdraw_assets"
    /\ last.res = "InsufficientFunds"
    /\ last.mem.portfolio.assets # Pre.assets

\* C2: with an argument vector whose length differs from the slot count,
\* stake and withdraw fail InvalidAmount and rebalance fails InvalidRebalance;
\* the portfolio is unchanged and no transfer is requested.
C2_LengthMismatch ==
    Len(last.vec) # Len(Pre.assets) =>
        /\ last.op \in {"stake_assets", "withdraw_assets"} =>
              last.res = "InvalidAmount" /\ Now = Pre /\ last.cpi = <<>>
        /\ last.op = "rebalance" =>
              /\ ByOwner => last.res = "InvalidRebalance"
              /\ Now = Pre /\ last.cpi = <<>>

\* C2 witness: a stake with more amounts than the portfolio has slots.
C2_Witness ==
    /\ last.op = "stake_assets"
    /\ Len(last.vec) > Len(Pre.assets)
    /\ last.res = "InvalidAmount"

\* C3: every instruction other than emergency_unstake leaves the slot count
\* as it was (so it stays the length of initial_assets), and
\* rebalance_with_risk_management refuses a new_allocation of another length.
C3_SlotCountFixed ==
    /\ last.op # "emergency_unstake" => Len(Now.assets) = Len(Pre.assets)
    /\ (/\ last.op = "rebalance_with_risk_management"
        /\ Len(last.vec) # Len(Pre.assets)) => last.res # "Ok"

\* C4: a withdraw of the same amounts right after a successful stake, its
\* transfer accepted, succeeds and returns every slot to its value before
\* the stake, with history and returns unchanged.
C4_RoundTrip ==
    [][(/\ last.op = "stake_assets" /\ last.res = "Ok" /\ ~last.refused
        /\ last'.op = "withdraw_assets" /\ last'.vec = last.vec
        /\ ~last'.refused)
       => /\ last'.res = "Ok"
          /\ accounts'.portfolio.assets = Pre.assets
          /\ accounts'.portfolio.value_history = Pre.value_history
          /\ accounts'.portfolio.returns = Pre.returns]_vars

\* C5: auto_distribute_rewards fails RewardsNotYetAvailable and keeps
\* last_reward_time when elapsed < 86400; when elapsed >= 86400 and the
\* transfer succeeds it requests exactly rate * elapsed and sets
\* last_reward_time to now.
C5_TimeGate ==
    last.op = "auto_distribute_rewards" =>
        /\ Elapsed < REWARD_INTERVAL =>
              /\ last.res = "RewardsNotYetAvailable"
              /\ accounts.reward_pool = last.pre.reward_pool
        /\ (Elapsed >= REWARD_INTERVAL /\ last.res = "Ok") =>
              /\ ~ProductOverflows
              /\ last.cpi = <<last.num * Elapsed>>
              /\ accounts.reward_pool.last_reward_time = last.now

\* C6: update_portfolio_value_with_oracle fails OracleLoadError and appends
\* nothing to history when the quote is more than 60 seconds old.
C6_Staleness ==
    (/\ last.op = "update_portfolio_value_with_oracle"
     /\ last.quote.readable
     /\ last.now - last.quote.publish_time > MAX_AGE_SECONDS)
    => last.res = "OracleLoadError" /\ Now.value_history = Pre.value_history

\* C7: emergency_unstake by the owner succeeds for every penalty, leaves no
\* slots, requests no transfer and keeps history and returns.
C7_EmergencyUnstake ==
    (last.op = "emergency_unstake" /\ ByOwner) =>
        /\ last.res = "Ok"
        /\ Now.assets = <<>>
        /\ last.cpi = <<>>
        /\ HistoryAndReturnsKept

\* C7 witness: an emergency_unstake whose penalty is larger than a slot.
C7_Witness ==
    /\ last.op = "emergency_unstake"
    /\ last.res = "Ok"
    /\ \E i \in 1..Len(Pre.assets) : Pre.assets[i] < last.num

\* C8: rebalance, rebalance_with_risk_management, update_performance and
\* emergency_unstake called by a signer other than the owner fail with
\* UnauthorizedAccess and leave the portfolio unchanged.
C8_OwnerRestriction ==
    (/\ last.op \in {"rebalance", "rebalance_with_risk_management",
                     "update_performance", "emergency_unstake"}
     /\ ~ByOwner)
    => last.res = "UnauthorizedAccess" /\ Now = Pre

\* C9: rebalance_with_risk_management fails (ExceedsMaxAllocation, for the
\* owner) and keeps the slots when an entry exceeds max_allocation; when it
\* succeeds the slots are new_allocation and every slot is <= max_allocation.
C9_RiskBound ==
    last.op = "rebalance_with_risk_management" =>
        /\ (\E i \in 1..Len(last.vec) : last.vec[i] > last.num) =>
              /\ last.res # "Ok"
              /\ ByOwner => last.res = "ExceedsMaxAllocation"
              /\ Now.assets = Pre.assets
        /\ last.res = "Ok" =>
              /\ Now.assets = last.vec
              /\ \A i \in 1..Len(Now.assets) : Now.assets[i] <= last.num

\* C9 witness: the first entry is within the bound and a later one is not.
C9_Witness ==
    /\ last.op = "rebalance_with_risk_management"
    /\ last.res = "ExceedsMaxAllocation"
    /\ Len(last.vec) > 1
    /\ last.vec[1] <= last.num

\* C10: when rate * elapsed exceeds the word, auto_distribute_rewards fails,
\* or transfers the saturated amount: it never transfers the product modulo
\* 2^64, and last_reward_time is not advanced on failure.
C10_RewardOverflowSafe ==
    (/\ last.op = "auto_distribute_rewards"
     /\ Elapsed >= REWARD_INTERVAL
     /\ ProductOverflows)
    => \/ last.res # "Ok" /\ accounts.reward_pool = last.pre.reward_pool
       \/ last.cpi = <<U64_MAX>>

\* The sum of a vector, and of a vector times a price, as integers.
RECURSIVE MathSum(_, _)
MathSum(v, i) == IF i > Len(v) THEN 0 ELSE v[i] + MathSum(v, i + 1)
RECURSIVE MathValue(_, _, _)
MathValue(v, price, i) ==
    IF i > Len(v) THEN 0 ELSE v[i] * price + MathValue(v, price, i + 1)

\* C11: a stake in which some slot[i] + amounts[i] exceeds the word fails
\* and changes no slot; no slot is smaller after a successful stake.
C11_StakeChecked ==
    (last.op = "stake_assets" /\ Len(last.vec) = Len(Pre.assets)) =>
        /\ (\E i \in 1..Len(last.vec) : Pre.assets[i] + last.vec[i] > U64_MAX)
              => last.res # "Ok" /\ Now = Pre
        /\ last.res = "Ok" =>
              \A i \in 1..Len(Pre.assets) : Now.assets[i] >= Pre.assets[i]

\* C12: a successful stake transfers the sum of amounts, which is the total
\* increase of the slots; a successful withdraw transfers the sum of amounts,
\* which is the total decrease of the slots.
C12_TransferMatchesSlots ==
    (last.res = "Ok" /\ ~last.refused) =>
        /\ last.op = "stake_assets" =>
              /\ last.cpi = <<MathSum(last.vec, 1)>>
              /\ MathSum(Now.assets, 1) - MathSum(Pre.assets, 1)
                    = MathSum(last.vec, 1)
        /\ last.op = "withdraw_assets" =>
              /\ last.cpi = <<MathSum(last.vec, 1)>>
              /\ MathSum(Pre.assets, 1) - MathSum(Now.assets, 1)
                    = MathSum(last.vec, 1)

\* C13: last_reward_time never decreases, and it changes only in an
\* auto_distribute_rewards whose transfer succeeded.
C13_RewardTimeForward ==
    /\ accounts.reward_pool.last_reward_time
          >= last.pre.reward_pool.last_reward_time
    /\ accounts.reward_pool # last.pre.reward_pool =>
          /\ last.op = "auto_distribute_rewards"
          /\ last.res = "Ok"
          /\ last.cpi # <<>> /\ ~last.refused

\* C13 witness: a call whose clock reading is older than a last_reward_time
\* that an earlier call had advanced.
C13_Witness ==
    /\ last.op = "auto_distribute_rewards"
    /\ last.now >= REWARD_INTERVAL
    /\ last.now < last.pre.reward_pool.last_reward_time

\* C14: a successful update_portfolio_value_with_oracle appends exactly one
\* value, the sum over the slots of slot[i] * price, and keeps the slots and
\* the returns.
C14_OracleValue ==
    (last.op = "update_portfolio_value_with_oracle" /\ last.res = "Ok") =>
        /\ Now.value_history =
              Append(Pre.value_history, MathValue(Pre.assets, last.quote.price, 1))
        /\ Now.assets = Pre.assets
        /\ Now.returns = Pre.returns

\* C16: history starts as <<0>>; every instruction leaves the old history a
\* prefix of the new one; only a successful update_performance or
\* update_portfolio_value_with_oracle lengthens it, by exactly one entry.
C16_HistoryAppendOnly ==
    /\ calls = 0 => Now.value_history = <<0>>
    /\ Len(Now.value_history) >= Len(Pre.value_history)
    /\ SubSeq(Now.value_history, 1, Len(Pre.value_history)) = Pre.value_history
    /\ (/\ last.op \in {"update_performance", "update_portfolio_value_with_oracle"}
        /\ last.res = "Ok")
          => Len(Now.value_history) = Len(Pre.value_history) + 1
    /\ ~(/\ last.op \in {"update_performance", "update_portfolio_value_with_oracle"}
         /\ last.res = "Ok")
          => Now.value_history = Pre.value_history

\* C16 witness: an emergency_unstake on a portfolio whose history has grown.
C16_Witness ==
    /\ last.op = "emergency_unstake"
    /\ last.res = "Ok"
    /\ Len(Now.value_history) > 1

\* C15: a successful update_performance(current_value) adds
\* max(0, current_value - last history value) to returns, the last history
\* value being the entry appended most recently by update_performance or by
\* the oracle update; it appends current_value to the history and leaves the
\* slots unchanged; a current_value below the last history value leaves
\* returns unchanged.
C15_UpdatePerformance ==
    (last.op = "update_performance" /\ last.res = "Ok") =>
        LET last_value == Pre.value_history[Len(Pre.value_history)]
            gain == IF last.num > last_value THEN last.num - last_value ELSE 0
        IN  /\ Now.returns = Pre.returns + gain
            /\ Now.value_history = Append(Pre.value_history, last.num)
            /\ Now.assets = Pre.assets

\* C17: returns never decreases: after every instruction it is greater than
\* or equal to its value before the instruction.
C17_ReturnsMonotone ==
    Now.returns >= Pre.returns

\* C18: the proposal is created with votes_for = votes_against = 0; every
\* cast_vote succeeds whoever signs it, cast_vote(true) adds exactly 1 to
\* votes_for and leaves votes_against, cast_vote(false) the reverse; the two
\* counters add up to the number of successful cast_vote calls, the votes of
\* one signer counting each time; no other instruction changes the counters,
\* and cast_vote does not change the governance stake.
C18_FlatVotes ==
    LET before == last.pre.governance
        after == accounts.governance
    IN  /\ calls = 0 => after.votes_for = 0 /\ after.votes_against = 0
        /\ last.op = "cast_vote" =>
              /\ last.res = "Ok"
              /\ last.num = 1 =>
                    /\ after.votes_for = before.votes_for + 1
                    /\ after.votes_against = before.votes_against
              /\ last.num = 0 =>
                    /\ after.votes_against = before.votes_against + 1
                    /\ after.votes_for = before.votes_for
              /\ after.proposal = before.proposal
              /\ accounts.governance_stake = last.pre.governance_stake
        /\ last.op # "cast_vote" => after = before
        /\ after.votes_for + after.votes_against = Len(audit.voters)

\* Two votes of one signer, one for and one against, both counted.
C18_Witness ==
    /\ last.op = "cast_vote"
    /\ audit.voters = <<"other_key", "other_key">>
    /\ accounts.governance.votes_for = 1
    /\ accounts.governance.votes_against = 1

\* C19: on a portfolio created with every slot at zero, the total moved from
\* the vault to the user by successful withdraw_assets calls never exceeds
\* the total moved from the user to the vault by successful stake_assets
\* calls.
C19_NoBypass ==
    audit.withdrawn <= audit.staked

\* C20: a successful emergency_unstake leaves no slot.  While the portfolio
\* has no slot, stake_assets and withdraw_assets with a non-empty vector fail
\* with InvalidAmount and rebalance with a non-empty vector fails (with
\* InvalidRebalance when its owner signs); the three succeed only with an
\* empty vector; and only rebalance_with_risk_management gives the portfolio
\* slots again.
C20_NearTerminal ==
    /\ (last.op = "emergency_unstake" /\ last.res = "Ok") => Now.assets = <<>>
    /\ Pre.assets = <<>> =>
          /\ (last.op \in {"stake_assets", "withdraw_assets"} /\ last.vec # <<>>)
                => last.res = "InvalidAmount"
          /\ (last.op = "rebalance" /\ last.vec # <<>>) =>
                /\ last.res # "Ok"
                /\ ByOwner => last.res = "InvalidRebalance"
          /\ (/\ last.op \in {"stake_assets", "withdraw_assets", "rebalance"}
              /\ last.res = "Ok") => last.vec = <<>>
          /\ Now.assets # <<>> =>
                last.op = "rebalance_with_risk_management" /\ last.res = "Ok"

\* After an emergency_unstake emptied a portfolio that had slots,
\* rebalance_with_risk_management gives it slots again.
C20_Witness ==
    /\ audit.unstaked
    /\ Pre.assets = <<>>
    /\ last.op = "rebalance_with_risk_management"
    /\ last.res = "Ok"
    /\ Now.assets # <<>>

====
